---- MODULE Spec2Model ----
(***************************************************************************)
(* OIDC session check (ForgeRock/oidcSessionCheck).                        *)
(*                                                                         *)
(* The model covers the SessionCheck module (src/sessionCheck.js): its     *)
(* constructor, triggerSessionCheck, sessionCheckRequest, the "message"    *)
(* listener, the validation handler of the ForgeRock session-token mode    *)
(* and destroy; and the redirect-target script that runs inside the hidden *)
(* iframe (src/unnamed/part_003, lines 1-98).  The browser around them is  *)
(* modelled by what the code uses of it: the clock, the document body, the *)
(* window's "message" listeners, sessionStorage, the pending navigation of *)
(* each hidden iframe, the outstanding XMLHttpRequests and the queue of    *)
(* posted messages.                                                        *)
(*                                                                         *)
(* JavaScript values: an absent or undefined string is "", an absent       *)
(* number is 0; both are falsy in JavaScript, as are the values they stand *)
(* for, so `a || b` and `if (a)` read the same on them.                    *)
(***************************************************************************)
EXTENDS Integers, Sequences, FiniteSets, TLC

(***************************************************************************)
(* Bounds of the model.                                                    *)
(***************************************************************************)
\* the clock advances in steps of one second and stops after MaxTicks steps
MaxTicks == 3
\* no instance accepts more than MaxCount triggers
MaxCount == 2
\* nonces are drawn from 0 .. NonceRange-1 (the code draws from 0 .. 99999)
NonceRange == 2
\* at most MaxMsgs posted messages wait for delivery
MaxMsgs == 1

\* the two instance slots; slot 2 is constructed after slot 1
Inst == {1, 2}

(***************************************************************************)
(* Program constants.                                                      *)
(***************************************************************************)
DefaultCooldownPeriod == 5
MsPerSecond == 1000
DefaultAuthId == "Primary"
DefaultSsoTokenName == "iPlanetDirectoryPro"
DefaultResponseType == "id_token"
DefaultScope == "openid"
\* document.location.origin of the page that hosts the instances
PageOrigin == "https://rp.example"
\* the origin of some other window that posts messages to the page
OtherOrigin == "https://other.example"
\* the absolute form of "sessionCheck.html" on that page
ResolvedRedirectUri == "https://rp.example/sessionCheck.html"

(***************************************************************************)
(* Input domains.                                                          *)
(***************************************************************************)
Subjects == {"alice", "bob"}
AuthIds == {DefaultAuthId, "B"}
Nonces == 0 .. (NonceRange - 1)
OpErrors == {"login_required"}
Clock == {t * MsPerSecond : t \in 0 .. MaxTicks}

\* the configuration records handed to the constructor; the three handlers
\* are always supplied
Configs ==
    [ subject : {"", "alice"},
      cooldownPeriod : {0, 1},
      ssoToken : {"", "tok"},
      ssoTokenName : {""},
      amUrl : {"https://am.example/json"},
      opUrl : {"https://op.example/authorize"},
      clientId : {"myRP"},
      authId : {"", "B"},
      responseType : {"", "id_token", "none"},
      idToken : {"", "jwt"},
      redirectUri : {""},
      scope : {""} ]

\* a || b on strings and on numbers
OrStr(a, b) == IF a # "" THEN a ELSE b
OrNum(a, b) == IF a # 0 THEN a ELSE b

\* string conversion of a possibly undefined string, as "prefix" + value does
JsStr(s) == IF s = "" THEN "undefined" ELSE s

(***************************************************************************)
(* sessionStorage: keys are <<prefix, suffix>> for the string              *)
(* prefix + suffix; the items are strings, a stored number being its       *)
(* decimal string.                                                         *)
(***************************************************************************)
NullItem == [t |-> "null"]
StrItem(s) == [t |-> "str", s |-> s]
NumItem(n) == [t |-> "num", n |-> n]

SubjectKey(authId) == <<"sessionCheckSubject-", JsStr(authId)>>
NonceKey(authId) == <<"sessionCheckNonce-", JsStr(authId)>>
FrameNonceKey == <<"sessionCheckNonce", "">>
FrameSubjectKey == <<"sessionCheckSubject", "">>

StorageKeys ==
    {SubjectKey(a) : a \in AuthIds \cup {""}} \cup
    {NonceKey(a) : a \in AuthIds \cup {""}} \cup
    {FrameNonceKey, FrameSubjectKey}

VARIABLES
    inst,            \* the fields of each SessionCheck object
    phase,           \* "absent", "live" (constructed) or "destroyed"
    body,            \* the instances whose iframe is a child of document body
    listeners,       \* the instances whose listener is registered on window
    sessionStorage,  \* the page's sessionStorage
    now,             \* (new Date()).getTime()
    nav,             \* the pending navigation of each instance's iframe
    xhrs,            \* the XMLHttpRequests sent and not yet loaded
    msgs,            \* the messages posted to the window, oldest first
    hist,            \* each instance's latest accepted trigger call (history)
    seen,            \* each instance's successes and first-success calls (history)
    last             \* what the last step did (history, never read by the code)

vars == <<inst, phase, body, listeners, sessionStorage, now, nav, xhrs, msgs, hist, seen, last>>

\* the fields of an object before its constructor has run
Blank ==
    [ request_check_count |-> 0, cooldownPeriod |-> 0, subject |-> "",
      ssoToken |-> "", ssoTokenName |-> "", amUrl |-> "",
      redirectUri |-> "", idToken |-> "", clientId |-> "", authId |-> "",
      opUrl |-> "", responseType |-> "", scope |-> "",
      iframe |-> FALSE, eventListenerHandle |-> FALSE,
      hasTimestamp |-> FALSE, checkSessionTimestamp |-> 0 ]

\* an iframe with no navigation under way
NoNav ==
    [ pending |-> FALSE,
      url |-> [ base |-> "", prompt |-> "", client_id |-> "",
                response_type |-> "", redirect_uri |-> "", state |-> "",
                hasNonce |-> FALSE, nonce |-> 0, scope |-> "",
                id_token_hint |-> "" ],
      k |-> 0 ]

\* the claims of an id_token, and their absence
Claims == [nonce : Nonces, sub : Subjects]
NoClaims == [nonce |-> 0, sub |-> ""]

\* the latest triggerSessionCheck() call of an instance that was let through
\* by the cooldown: when it was made and the request_check_count it found;
\* sent is the number of requests the instance has issued so far
NoCall == [called |-> FALSE, at |-> 0, before |-> 0, sent |-> 0]

\* the results an instance has classified as success and the invocations of
\* its initialSessionSuccessHandler, each counted up to 2
NoneSeen == [successes |-> 0, initial |-> 0]
UpTo2(n) == IF n > 2 THEN 2 ELSE n

\* an id_token: its claims and the number of '-' and of '_' characters in
\* its base64url claims segment
TokenShapes == { [dashes |-> 1, unders |-> 1], [dashes |-> 2, unders |-> 0] }
Tokens == [claims : Claims, shape : TokenShapes]
NoToken == [claims |-> NoClaims, shape |-> [dashes |-> 0, unders |-> 0]]

\* the parameters of a response (fragment and query string together);
\* error = "" and state = "" stand for an absent parameter
ResponseParams(state) ==
    [ hasToken : {TRUE}, id_token : Tokens, error : OpErrors \cup {""},
      state : {state, ""} ] \cup
    [ hasToken : {FALSE}, id_token : {NoToken}, error : OpErrors \cup {""},
      state : {state, ""} ]
NoParams == [hasToken |-> FALSE, id_token |-> NoToken, error |-> "", state |-> ""]

\* the responses an iframe can load for a request that carried state: in a
\* document of the page's origin any parameters, in a document of another
\* origin (where the script reads none of them) no parameter or an error;
\* readable tells whether the document may read parent.window.origin: it
\* may when the origins are the same, and across origins only when both
\* documents have relaxed document.domain
Responses(state) ==
    [ sameOrigin : {TRUE}, readable : {TRUE},
      params : ResponseParams(state) ] \cup
    [ sameOrigin : {FALSE}, readable : BOOLEAN,
      params : {NoParams} \cup
               { [NoParams EXCEPT !.error = e, !.state = state] : e \in OpErrors } ]

\* no response body
NoResponse == [kind |-> "none", text |-> "", valid |-> FALSE, uid |-> ""]

\* a configuration with every member absent
NoConfig ==
    [ subject |-> "", cooldownPeriod |-> 0, ssoToken |-> "",
      ssoTokenName |-> "", amUrl |-> "", opUrl |-> "", clientId |-> "",
      authId |-> "", responseType |-> "", idToken |-> "", redirectUri |-> "",
      scope |-> "" ]

\* the record of a step: the operation and its instance; was, the phase of
\* the instance before the step; k, the number of the request it dispatched
\* or answered; whether it threw; what it dispatched ("nav", "xhr" or
\* "none"); the handler invocations it made, in order; the messages it posted
\* or delivered; the instances that classified a success; for a trigger, the
\* instance's previous accepted call; for a frame load, the origin test and
\* the response parameters; for a construction, the configuration; for the
\* load of a validation request, the response body
NoStep ==
    [ op |-> "init", inst |-> 0, was |-> "absent", k |-> 0, threw |-> FALSE,
      dispatched |-> "none", invoked |-> <<>>, relayed |-> <<>>,
      succeeded |-> {}, prev |-> NoCall, sameOrigin |-> FALSE,
      params |-> NoParams, config |-> NoConfig, resp |-> NoResponse ]

\* a handler invocation that passes 1 for the count
CallFirstCount(i, handler, reason, hasClaims, claims, count) ==
    [ inst |-> i, handler |-> handler, reason |-> reason,
      hasClaims |-> hasClaims, claims |-> claims,
      count |-> IF count = 0 THEN 0 ELSE 1 ]

\* one handler invocation: the instance whose handler it is, the handler,
\* and the arguments (reason or claims, and request_check_count)
Call(i, handler, reason, hasClaims, claims, count) ==
    [ inst |-> i, handler |-> handler, reason |-> reason,
      hasClaims |-> hasClaims, claims |-> claims, count |-> count ]

Init ==
    /\ inst = [i \in Inst |-> Blank]
    /\ phase = [i \in Inst |-> "absent"]
    /\ body = {}
    /\ listeners = {}
    /\ sessionStorage = [k \in StorageKeys |-> NullItem]
    /\ now = 0
    /\ nav = [i \in Inst |-> NoNav]
    /\ xhrs = {}
    /\ msgs = <<>>
    /\ hist = [i \in Inst |-> NoCall]
    /\ seen = [i \in Inst |-> NoneSeen]
    /\ last = NoStep

(***************************************************************************)
(* The clock.                                                              *)
(***************************************************************************)
\* the clock with a timeout that reports a request left unanswered
TickTimeout ==
    /\ now + MsPerSecond \in Clock
    /\ now' = now + MsPerSecond
    /\ last' = [NoStep EXCEPT
                  !.op = "tick",
                  !.invoked = IF nav[1].pending
                              THEN <<Call(1, "invalidSessionHandler", "timeout",
                                          FALSE, NoClaims,
                                          inst[1].request_check_count)>>
                              ELSE <<>>]
    /\ UNCHANGED <<inst, phase, body, listeners, sessionStorage, nav, xhrs, msgs, hist, seen>>

Tick ==
    /\ now + MsPerSecond \in Clock
    /\ now' = now + MsPerSecond
    /\ last' = [NoStep EXCEPT !.op = "tick"]
    /\ UNCHANGED <<inst, phase, body, listeners, sessionStorage, nav, xhrs, msgs, hist, seen>>

(***************************************************************************)
(* The constructor, module.exports = function (config).                    *)
(***************************************************************************)
\* the constructor requiring the idToken hint for every response type
ConstructThrowsWithoutHint(config) ==
    /\ config.ssoToken = ""
    /\ config.idToken = ""

\* the constructor throws: responseType "none" without an idToken hint
ConstructThrows(config) ==
    /\ config.ssoToken = ""
    /\ OrStr(config.responseType, DefaultResponseType) = "none"
    /\ config.idToken = ""

\* the fields of the object the constructor returns
ConstructFields(config) ==
    LET common == [Blank EXCEPT
                     !.request_check_count = 0,
                     !.cooldownPeriod = OrNum(config.cooldownPeriod, DefaultCooldownPeriod),
                     !.subject = config.subject]
        responseType == OrStr(config.responseType, DefaultResponseType)
    IN  IF config.ssoToken # ""
        THEN [common EXCEPT
                !.ssoTokenName = OrStr(config.ssoTokenName, DefaultSsoTokenName),
                !.ssoToken = config.ssoToken,
                !.amUrl = config.amUrl]
        ELSE [common EXCEPT
                !.redirectUri = OrStr(config.redirectUri, ResolvedRedirectUri),
                !.idToken = config.idToken,
                !.clientId = config.clientId,
                !.authId = OrStr(config.authId, DefaultAuthId),
                !.opUrl = config.opUrl,
                !.responseType = responseType,
                !.scope = IF responseType = "id_token"
                          THEN OrStr(config.scope, DefaultScope) ELSE "",
                !.iframe = TRUE,
                !.eventListenerHandle = TRUE]

Construct(i, config) ==
    /\ phase[i] = "absent"
    /\ \A j \in Inst : j < i => phase[j] # "absent"
    /\ IF ConstructThrows(config)
       THEN /\ last' = [NoStep EXCEPT !.op = "construct", !.inst = i,
                                      !.threw = TRUE, !.config = config]
            /\ UNCHANGED <<inst, phase, body, listeners, sessionStorage>>
       ELSE LET f == ConstructFields(config)
            IN  /\ inst' = [inst EXCEPT ![i] = f]
                /\ phase' = [phase EXCEPT ![i] = "live"]
                /\ body' = IF f.iframe THEN body \cup {i} ELSE body
                /\ listeners' = IF f.eventListenerHandle
                                THEN listeners \cup {i} ELSE listeners
                /\ sessionStorage' =
                       IF f.ssoToken = "" /\ f.subject # ""
                       THEN [sessionStorage EXCEPT
                               ![SubjectKey(f.authId)] = StrItem(f.subject)]
                       ELSE sessionStorage
                /\ last' = [NoStep EXCEPT !.op = "construct", !.inst = i,
                                          !.config = config]
    /\ UNCHANGED <<now, nav, xhrs, msgs, hist, seen>>

(***************************************************************************)
(* sessionCheckRequest(config) and triggerSessionCheck().                  *)
(***************************************************************************)
\* the path the constructor appends to amUrl
ValidatePath == "/sessions?_action=validate"

\* the authorization URL, one field per query parameter; nonce is the fresh
\* nonce and is sent only with response_type=id_token
AuthorizationUrl(o, nonce) ==
    [ base |-> o.opUrl, prompt |-> "none", client_id |-> o.clientId,
      response_type |-> o.responseType, redirect_uri |-> o.redirectUri,
      state |-> o.authId,
      hasNonce |-> (o.responseType = "id_token"),
      nonce |-> IF o.responseType = "id_token" THEN nonce ELSE 0,
      scope |-> o.scope, id_token_hint |-> o.idToken ]

\* the XMLHttpRequest of the session-token mode; k is the value of
\* request_check_count when it was sent
ValidationRequest(i, o, k) ==
    [ inst |-> i, k |-> k, method |-> "POST", url |-> o.amUrl,
      path |-> ValidatePath,
      headerName |-> o.ssoTokenName, headerValue |-> o.ssoToken,
      apiVersion |-> "resource=2.1, protocol=1.0" ]

\* sessionCheckRequest without its session-token branch
RequestKindNavOnly(o) ==
    IF ~o.iframe THEN "none" ELSE "nav"

\* what sessionCheckRequest does for object o: "xhr", "nav" or "none"
RequestKind(o) ==
    IF o.ssoToken # "" THEN "xhr"
    ELSE IF ~o.iframe THEN "none"
    ELSE "nav"

\* the cooldown test of sessionCheckRequestCooldown
CooldownOver(o, timestamp) ==
    \/ ~o.hasTimestamp
    \/ o.checkSessionTimestamp = 0
    \/ o.checkSessionTimestamp + (o.cooldownPeriod * MsPerSecond) < timestamp

TriggerSessionCheck(i, nonce) ==
    /\ phase[i] # "absent"
    /\ inst[i].request_check_count < MaxCount
    /\ IF CooldownOver(inst[i], now)
       THEN LET o == [inst[i] EXCEPT
                        !.hasTimestamp = TRUE,
                        !.checkSessionTimestamp = now,
                        !.request_check_count = @ + 1]
                kind == RequestKind(o)
            IN  /\ inst' = [inst EXCEPT ![i] = o]
                /\ xhrs' = IF kind = "xhr"
                           THEN xhrs \cup {ValidationRequest(i, o, o.request_check_count)}
                           ELSE xhrs
                /\ sessionStorage' =
                       IF kind = "nav" /\ o.responseType = "id_token"
                       THEN [sessionStorage EXCEPT
                               ![NonceKey(o.authId)] = NumItem(nonce)]
                       ELSE sessionStorage
                /\ nav' = IF kind = "nav"
                          THEN [nav EXCEPT ![i] =
                                  [pending |-> TRUE,
                                   url |-> AuthorizationUrl(o, nonce),
                                   k |-> o.request_check_count]]
                          ELSE nav
                /\ last' = [NoStep EXCEPT !.op = "trigger", !.inst = i,
                                          !.was = phase[i],
                                          !.k = o.request_check_count,
                                          !.dispatched = kind,
                                          !.prev = hist[i]]
                /\ hist' = [hist EXCEPT ![i] =
                              [called |-> TRUE, at |-> now,
                               before |-> inst[i].request_check_count,
                               sent |-> hist[i].sent +
                                        IF kind = "none" THEN 0 ELSE 1]]
       ELSE /\ last' = [NoStep EXCEPT !.op = "trigger", !.inst = i,
                                      !.was = phase[i],
                                      !.prev = hist[i]]
            /\ UNCHANGED <<inst, xhrs, sessionStorage, nav, hist>>
    /\ UNCHANGED <<phase, body, listeners, now, msgs, seen>>

(***************************************************************************)
(* destroy().                                                              *)
(***************************************************************************)
\* destroy() leaving the listener registered
DestroyKeepsListener(i) ==
    /\ phase[i] # "absent"
    /\ body' = IF inst[i].iframe /\ i \in body THEN body \ {i} ELSE body
    /\ sessionStorage' = [sessionStorage EXCEPT
                            ![SubjectKey(inst[i].authId)] = NullItem,
                            ![NonceKey(inst[i].authId)] = NullItem]
    /\ listeners' = listeners
    /\ inst' = [inst EXCEPT ![i].iframe = FALSE,
                            ![i].eventListenerHandle = FALSE]
    /\ nav' = IF inst[i].iframe /\ i \in body
              THEN [nav EXCEPT ![i] = NoNav] ELSE nav
    /\ phase' = [phase EXCEPT ![i] = "destroyed"]
    /\ last' = [NoStep EXCEPT !.op = "destroy", !.inst = i, !.was = phase[i]]
    /\ UNCHANGED <<now, xhrs, msgs, hist, seen>>

\* destroy() removing the ledger items of the default authId instead of the
\* instance's own
DestroyDefaultKeys(i) ==
    /\ phase[i] # "absent"
    /\ body' = IF inst[i].iframe /\ i \in body THEN body \ {i} ELSE body
    /\ sessionStorage' = [sessionStorage EXCEPT
                            ![SubjectKey(DefaultAuthId)] = NullItem,
                            ![NonceKey(DefaultAuthId)] = NullItem]
    /\ listeners' = IF inst[i].eventListenerHandle
                    THEN listeners \ {i} ELSE listeners
    /\ inst' = [inst EXCEPT ![i].iframe = FALSE,
                            ![i].eventListenerHandle = FALSE]
    /\ nav' = IF inst[i].iframe /\ i \in body
              THEN [nav EXCEPT ![i] = NoNav] ELSE nav
    /\ phase' = [phase EXCEPT ![i] = "destroyed"]
    /\ last' = [NoStep EXCEPT !.op = "destroy", !.inst = i, !.was = phase[i]]
    /\ UNCHANGED <<now, xhrs, msgs, hist, seen>>

Destroy(i) ==
    /\ phase[i] # "absent"
    /\ body' = IF inst[i].iframe /\ i \in body THEN body \ {i} ELSE body
    /\ sessionStorage' = [sessionStorage EXCEPT
                            ![SubjectKey(inst[i].authId)] = NullItem,
                            ![NonceKey(inst[i].authId)] = NullItem]
    /\ listeners' = IF inst[i].eventListenerHandle
                    THEN listeners \ {i} ELSE listeners
    /\ inst' = [inst EXCEPT ![i].iframe = FALSE,
                            ![i].eventListenerHandle = FALSE]
    \* a removed iframe loses its browsing context and its navigation
    /\ nav' = IF inst[i].iframe /\ i \in body
              THEN [nav EXCEPT ![i] = NoNav] ELSE nav
    /\ phase' = [phase EXCEPT ![i] = "destroyed"]
    /\ last' = [NoStep EXCEPT !.op = "destroy", !.inst = i, !.was = phase[i]]
    /\ UNCHANGED <<now, xhrs, msgs, hist, seen>>

(***************************************************************************)
(* The script of the redirect target, which runs in the hidden iframe once *)
(* the identity provider has answered the authorization request.           *)
(***************************************************************************)
\* getIdTokenClaims: replace("-", "+") and replace("_", "/") replace the first
\* occurrence only, atob rejects the characters that are left
getIdTokenClaims(id_token) ==
    [ ok |-> id_token.shape.dashes <= 1 /\ id_token.shape.unders <= 1,
      claims |-> id_token.claims ]

\* JSON.parse(sessionStorage.getItem(key)): an absent item is null and parses
\* to null, a decimal string to a number, an object text (held as the
\* function it denotes) to that object, any other string is a SyntaxError
JsonParse(item) ==
    CASE item.t = "null" -> [t |-> "null"]
      [] item.t = "num" -> [t |-> "num", n |-> item.n]
      [] item.t = "map" -> [t |-> "map", m |-> item.m]
      [] OTHER -> [t |-> "throw"]

\* v[name] throws on null; on a number and on an object without the property
\* it is undefined
HasProp(v, name) == v.t = "map" /\ name \in DOMAIN v.m

\* the message posted to the parent: data is "object" for the object the
\* script posts; from and k name the instance and the request whose response
\* produced it, echoed tells whether that response carried the state of the
\* request (history, not part of the message)
Message(message, reason, hasClaims, claims, authId) ==
    [ data |-> "object",
      message |-> message, reason |-> reason, hasClaims |-> hasClaims,
      claims |-> claims, authId |-> authId, origin |-> PageOrigin,
      from |-> 0, k |-> 0, echoed |-> FALSE ]

FrameReturn == [kind |-> "return"]
FrameThrow == [kind |-> "throw"]
FramePost(m) == [kind |-> "post", msg |-> m]

\* the id_token branch of the script
FrameIdToken(params, storage) ==
    LET decoded == getIdTokenClaims(params.id_token)
        new_claims == decoded.claims
        state == JsStr(params.state)
        nonceMap == JsonParse(storage[FrameNonceKey])
        subjectMap == JsonParse(storage[FrameSubjectKey])
    IN  IF ~decoded.ok THEN FrameThrow
        ELSE IF nonceMap.t \in {"throw", "null"} THEN FrameThrow
        ELSE IF ~(HasProp(nonceMap, state) /\ nonceMap.m[state] = new_claims.nonce)
        THEN FramePost(Message("sessionCheckFailed", "nonce_mismatch",
                               FALSE, NoClaims, params.state))
        ELSE IF subjectMap.t \in {"throw", "null"} THEN FrameThrow
        ELSE IF /\ HasProp(subjectMap, state)
                /\ subjectMap.m[state] # ""
                /\ new_claims.sub # subjectMap.m[state]
        THEN FramePost(Message("sessionCheckFailed", "subject_mismatch",
                               FALSE, NoClaims, params.state))
        ELSE FramePost(Message("sessionCheckSucceeded", "",
                               TRUE, new_claims, params.state))

\* the script giving up on a response that carries no state
FrameScriptStateRequired(sameOrigin, readable, params, storage) ==
    IF ~readable THEN FrameThrow
    ELSE IF ~sameOrigin \/ params.state = "" THEN FrameReturn
    ELSE IF params.hasToken THEN FrameIdToken(params, storage)
    ELSE IF params.error # ""
    THEN FramePost(Message("sessionCheckFailed", params.error,
                           FALSE, NoClaims, ""))
    ELSE FramePost(Message("sessionCheckSucceeded", "",
                           FALSE, NoClaims, params.state))

\* the whole script: the read of parent.window.origin throws a SecurityError
\* when the parent does not let this document read it; sameOrigin is
\* parent.window.origin === window.origin
FrameScript(sameOrigin, readable, params, storage) ==
    IF ~readable THEN FrameThrow
    ELSE IF ~sameOrigin THEN FrameReturn
    ELSE IF params.hasToken THEN FrameIdToken(params, storage)
    ELSE IF params.error # ""
    THEN FramePost(Message("sessionCheckFailed", params.error,
                           FALSE, NoClaims, ""))
    ELSE FramePost(Message("sessionCheckSucceeded", "",
                           FALSE, NoClaims, params.state))

\* the script run without regard to the origin of the iframe
FrameLoadAnyOrigin(i, sameOrigin, readable, params) ==
    /\ nav[i].pending
    /\ LET r == FrameScript(TRUE, TRUE, params, sessionStorage)
           posted == IF r.kind = "post"
                     THEN <<[r.msg EXCEPT !.from = i, !.k = nav[i].k,
                                          !.echoed = (params.state = nav[i].url.state)]>>
                     ELSE <<>>
       IN  /\ Len(msgs) + Len(posted) <= MaxMsgs
           /\ msgs' = msgs \o posted
           /\ last' = [NoStep EXCEPT !.op = "frameLoad", !.inst = i,
                                     !.k = nav[i].k,
                                     !.was = phase[i],
                                     !.threw = (r.kind = "throw"),
                                     !.relayed = posted,
                                     !.sameOrigin = sameOrigin,
                                     !.params = params]
    /\ nav' = [nav EXCEPT ![i] = NoNav]
    /\ UNCHANGED <<inst, phase, body, listeners, sessionStorage, now, xhrs, hist, seen>>

\* the iframe of instance i finishes its navigation: the provider has
\* redirected it to the redirect target with params, and the script runs
FrameLoad(i, sameOrigin, readable, params) ==
    /\ nav[i].pending
    /\ LET r == FrameScript(sameOrigin, readable, params, sessionStorage)
           posted == IF r.kind = "post"
                     THEN <<[r.msg EXCEPT !.from = i, !.k = nav[i].k,
                                          !.echoed = (params.state = nav[i].url.state)]>>
                     ELSE <<>>
       IN  /\ Len(msgs) + Len(posted) <= MaxMsgs
           /\ msgs' = msgs \o posted
           /\ last' = [NoStep EXCEPT !.op = "frameLoad", !.inst = i,
                                     !.k = nav[i].k,
                                     !.was = phase[i],
                                     !.threw = (r.kind = "throw"),
                                     !.relayed = posted,
                                     !.sameOrigin = sameOrigin,
                                     !.params = params]
    /\ nav' = [nav EXCEPT ![i] = NoNav]
    /\ UNCHANGED <<inst, phase, body, listeners, sessionStorage, now, xhrs, hist, seen>>

(***************************************************************************)
(* The "message" listener of an instance, this.eventListenerHandle.        *)
(***************************************************************************)
\* the messages other windows and other scripts post to the page: failures
\* and successes from another origin, a message whose data is null, and a
\* failure posted from the page's own origin under the authId "B"
ForeignMessages ==
    { [Message("sessionCheckFailed", "login_required", FALSE, NoClaims, "")
          EXCEPT !.origin = OtherOrigin],
      [Message("sessionCheckSucceeded", "", TRUE, [nonce |-> 0, sub |-> "bob"],
               DefaultAuthId)
          EXCEPT !.origin = OtherOrigin],
      [Message("", "", FALSE, NoClaims, "")
          EXCEPT !.origin = OtherOrigin, !.data = "null"],
      Message("sessionCheckFailed", "login_required", FALSE, NoClaims, "B") }

\* the listener throws: e.data.authId cannot be read when e.data is null
ListenerThrows(e) == e.data = "null"

\* the listener without its origin test
ListenerAnyOrigin(i, o, e) ==
    IF ListenerThrows(e) THEN <<>>
    ELSE IF e.authId # "" /\ e.authId # o.authId THEN <<>>
    ELSE (IF e.message = "sessionCheckFailed"
          THEN <<Call(i, "invalidSessionHandler", e.reason, FALSE, NoClaims,
                      o.request_check_count)>>
          ELSE <<>>)
         \o
         (IF e.message = "sessionCheckSucceeded"
          THEN (IF e.hasClaims
                THEN <<Call(i, "sessionClaimsHandler", "", TRUE, e.claims,
                            o.request_check_count)>>
                ELSE <<>>)
               \o
               (IF o.request_check_count = 1
                THEN <<Call(i, "initialSessionSuccessHandler", "", FALSE,
                            NoClaims, 0)>>
                ELSE <<>>)
          ELSE <<>>)

\* the handler invocations the listener of instance i makes for message e
Listener(i, o, e) ==
    IF ListenerThrows(e) THEN <<>>
    ELSE IF e.authId # "" /\ e.authId # o.authId THEN <<>>
    ELSE IF e.origin # PageOrigin THEN <<>>
    ELSE (IF e.message = "sessionCheckFailed"
          THEN <<Call(i, "invalidSessionHandler", e.reason, FALSE, NoClaims,
                      o.request_check_count)>>
          ELSE <<>>)
         \o
         (IF e.message = "sessionCheckSucceeded"
          THEN (IF e.hasClaims
                THEN <<Call(i, "sessionClaimsHandler", "", TRUE, e.claims,
                            o.request_check_count)>>
                ELSE <<>>)
               \o
               (IF o.request_check_count = 1
                THEN <<Call(i, "initialSessionSuccessHandler", "", FALSE,
                            NoClaims, 0)>>
                ELSE <<>>)
          ELSE <<>>)

\* the listeners registered on the window run in the order of registration
RECURSIVE Dispatch(_, _)
Dispatch(i, e) ==
    IF i \notin Inst THEN <<>>
    ELSE (IF i \in listeners THEN Listener(i, inst[i], e) ELSE <<>>)
         \o Dispatch(i + 1, e)

\* instance i takes message e for a success of its own: its listener is
\* registered and lets the message through, and the message reports success
ListenerSuccess(i, e) ==
    /\ i \in listeners
    /\ ~ListenerThrows(e)
    /\ ~(e.authId # "" /\ e.authId # inst[i].authId)
    /\ e.origin = PageOrigin
    /\ e.message = "sessionCheckSucceeded"

\* the history after a step that made the invocations invoked and in which
\* the instances of succeeded classified a success
Observe(invoked, succeeded) ==
    [ i \in Inst |->
        [ successes |-> UpTo2(seen[i].successes + IF i \in succeeded THEN 1 ELSE 0),
          initial |-> UpTo2(seen[i].initial + Cardinality(
                        { n \in 1 .. Len(invoked) :
                            /\ invoked[n].inst = i
                            /\ invoked[n].handler = "initialSessionSuccessHandler" })) ] ]

\* the window receives message e: every registered listener runs
Receive(op, e) ==
    LET invoked == Dispatch(1, e)
        succeeded == {i \in Inst : ListenerSuccess(i, e)}
    IN  /\ last' = [NoStep EXCEPT !.op = op, !.inst = e.from,
                                  !.k = e.k, !.invoked = invoked,
                                  !.threw = (listeners # {} /\ ListenerThrows(e)),
                                  !.relayed = <<e>>,
                                  !.succeeded = succeeded]
        /\ seen' = Observe(invoked, succeeded)

\* the oldest posted message is delivered to the window
DeliverMessage ==
    /\ msgs # <<>>
    /\ Receive("message", Head(msgs))
    /\ msgs' = Tail(msgs)
    /\ UNCHANGED <<inst, phase, body, listeners, sessionStorage, now, nav, xhrs, hist>>

\* a message posted by another window or script is delivered to the window
ForeignMessage(e) ==
    /\ \E i \in Inst : phase[i] # "absent"
    /\ Receive("foreign", e)
    /\ UNCHANGED <<inst, phase, body, listeners, sessionStorage, now, nav, xhrs, msgs, hist>>

(***************************************************************************)
(* The session-token mode: the "load" event of an XMLHttpRequest runs      *)
(* this.validationHandler(responseText).                                   *)
(***************************************************************************)
\* the response texts JSON.parse rejects
UnparseableTexts == {"<html>Bad gateway</html>", "", "not json"}

\* a response body: a text that is not JSON; the JSON text null; or the text
\* of a JSON object, held as its valid and uid members (uid = "" when it
\* has none)
ValidationResponses ==
    [ kind : {"unparseable"}, text : UnparseableTexts,
      valid : {FALSE}, uid : {""} ] \cup
    [ kind : {"null"}, text : {"null"}, valid : {FALSE}, uid : {""} ] \cup
    [ kind : {"object"}, text : {"{...}"}, valid : BOOLEAN,
      uid : Subjects \cup {""} ]

\* e.message of the SyntaxError JSON.parse throws on text; the wording is the
\* engine's (here V8's) and depends on the text
ParseErrorMessage(text) ==
    CASE text = "" -> "Unexpected end of JSON input"
      [] text = "<html>Bad gateway</html>" ->
             "Unexpected token '<', \"<html>Bad \"... is not valid JSON"
      [] text = "not json" ->
             "Unexpected token 'o', \"not json\" is not valid JSON"

\* validationHandler: whether it throws and the invocations it makes
validationHandler(i, o, resp) ==
    IF resp.kind = "unparseable"
    THEN [threw |-> FALSE,
          invoked |-> <<Call(i, "invalidSessionHandler",
                             ParseErrorMessage(resp.text), FALSE, NoClaims,
                             o.request_check_count)>>]
    ELSE IF resp.kind = "null"
    THEN [threw |-> TRUE, invoked |-> <<>>]
    ELSE IF ~resp.valid
    THEN [threw |-> FALSE,
          invoked |-> <<Call(i, "invalidSessionHandler", "invalid_session",
                             FALSE, NoClaims, o.request_check_count)>>]
    ELSE IF o.subject # "" /\ o.subject # resp.uid
    THEN [threw |-> FALSE,
          invoked |-> <<Call(i, "invalidSessionHandler", "subject_mismatch",
                             FALSE, NoClaims, o.request_check_count)>>]
    ELSE IF o.request_check_count = 1
    THEN [threw |-> FALSE,
          invoked |-> <<Call(i, "initialSessionSuccessHandler", "", FALSE,
                             NoClaims, 0)>>]
    ELSE [threw |-> FALSE, invoked |-> <<>>]

\* the response reports a valid session of the expected subject
ValidationSuccess(o, resp) ==
    /\ resp.kind = "object"
    /\ resp.valid
    /\ (o.subject = "" \/ o.subject = resp.uid)

\* the load callback sending the request again after a failure
XhrLoadRetry(x, resp) ==
    /\ x \in xhrs
    /\ LET r == validationHandler(x.inst, inst[x.inst], resp)
           succeeded == IF ValidationSuccess(inst[x.inst], resp)
                        THEN {x.inst} ELSE {}
       IN  /\ last' = [NoStep EXCEPT !.op = "xhrLoad", !.inst = x.inst,
                                     !.was = phase[x.inst],
                                     !.k = x.k, !.threw = r.threw,
                                     !.invoked = r.invoked,
                                     !.succeeded = succeeded,
                                     !.resp = resp]
           /\ seen' = Observe(r.invoked, succeeded)
           /\ xhrs' = IF succeeded = {} /\ x.k < MaxCount
                      THEN (xhrs \ {x}) \cup {[x EXCEPT !.k = @ + 1]}
                      ELSE xhrs \ {x}
    /\ UNCHANGED <<inst, phase, body, listeners, sessionStorage, now, nav, msgs, hist>>

XhrLoad(x, resp) ==
    /\ x \in xhrs
    /\ LET r == validationHandler(x.inst, inst[x.inst], resp)
           succeeded == IF ValidationSuccess(inst[x.inst], resp)
                        THEN {x.inst} ELSE {}
       IN  /\ last' = [NoStep EXCEPT !.op = "xhrLoad", !.inst = x.inst,
                                     !.was = phase[x.inst],
                                     !.k = x.k, !.threw = r.threw,
                                     !.invoked = r.invoked,
                                     !.succeeded = succeeded,
                                     !.resp = resp]
           /\ seen' = Observe(r.invoked, succeeded)
    /\ xhrs' = xhrs \ {x}
    /\ UNCHANGED <<inst, phase, body, listeners, sessionStorage, now, nav, msgs, hist>>

\* the configurations that leave authId to its default
SoloConfigs == { c \in Configs : c.authId = "" }

\* one instance on the page, under the default authId, no other window
\* posting to the page
Next ==
    \/ Tick
    \/ \E config \in SoloConfigs : Construct(1, config)
    \/ \E nonce \in Nonces : TriggerSessionCheck(1, nonce)
    \/ Destroy(1)
    \/ \E r \in Responses(nav[1].url.state) :
          FrameLoad(1, r.sameOrigin, r.readable, r.params)
    \/ DeliverMessage
    \/ \E x \in xhrs, resp \in ValidationResponses : XhrLoad(x, resp)

Spec == Init /\ [][Next]_vars

\* two instances on the page and no other window posting to it
PairConfigs ==
    { c \in Configs : /\ c.cooldownPeriod = 1
                      /\ <<c.responseType, c.idToken>> \in
                            {<<"", "">>, <<"none", "jwt">>} }

InitPair ==
    /\ inst = [i \in Inst |-> Blank]
    /\ phase = [i \in Inst |-> "absent"]
    /\ body = {}
    /\ listeners = {}
    /\ sessionStorage = [k \in StorageKeys |-> NullItem]
    /\ now = MsPerSecond
    /\ nav = [i \in Inst |-> NoNav]
    /\ xhrs = {}
    /\ msgs = <<>>
    /\ hist = [i \in Inst |-> NoCall]
    /\ seen = [i \in Inst |-> NoneSeen]
    /\ last = NoStep

NextPair ==
    \/ \E i \in Inst, config \in PairConfigs : Construct(i, config)
    \/ \E i \in Inst, nonce \in Nonces : TriggerSessionCheck(i, nonce)
    \/ \E i \in Inst : Destroy(i)
    \/ \E i \in Inst : \E r \in Responses(nav[i].url.state) :
          FrameLoad(i, r.sameOrigin, r.readable, r.params)
    \/ DeliverMessage
    \/ \E x \in xhrs, resp \in ValidationResponses : XhrLoad(x, resp)

SpecPair == InitPair /\ [][NextPair]_vars

\* one instance on a page to which other windows post messages, the clock
\* standing still
NextForeign ==
    \/ \E config \in Configs : Construct(1, config)
    \/ \E nonce \in Nonces : TriggerSessionCheck(1, nonce)
    \/ Destroy(1)
    \/ \E r \in Responses(nav[1].url.state) :
          FrameLoad(1, r.sameOrigin, r.readable, r.params)
    \/ DeliverMessage
    \/ \E e \in ForeignMessages : ForeignMessage(e)
    \/ \E x \in xhrs, resp \in ValidationResponses : XhrLoad(x, resp)

SpecForeign == InitPair /\ [][NextForeign]_vars

(***************************************************************************)
(* Properties.                                                             *)
(***************************************************************************)
\* the last step was a triggerSessionCheck() call that the cooldown let through
Accepted == last.op = "trigger" /\ last.k > 0

\* the handler invocations of the last step
Invocations == {last.invoked[n] : n \in 1 .. Len(last.invoked)}

\* C1: a triggerSessionCheck() call made less than cooldownPeriod after an
\* accepted call of the same instance is not accepted, so that across the
\* two calls request_check_count rises by exactly 1
C1_OneDispatchPerCooldown ==
    ( /\ last.op = "trigger"
      /\ last.prev.called
      /\ now - last.prev.at < inst[last.inst].cooldownPeriod * MsPerSecond )
    => ( /\ ~Accepted
         /\ inst[last.inst].request_check_count = last.prev.before + 1 )

\* C2: no handler of an instance is invoked once the instance is destroyed
C2_NoHandlerAfterDestroy ==
    \A c \in Invocations : phase[c.inst] # "destroyed"

\* two live instances of the iframe mode with distinct authIds
DistinctLivePair ==
    /\ \A i \in Inst : phase[i] = "live" /\ inst[i].ssoToken = ""
    /\ \A i, j \in Inst : i # j => inst[i].authId # inst[j].authId

\* C3: with two live instances of distinct authIds, a message relayed for the
\* response to one instance's request (the response echoing the state of the
\* request) invokes handlers of that instance only
C3_NoCrossTalk ==
    ( /\ DistinctLivePair
      /\ last.op = "message"
      /\ last.relayed[1].echoed )
    => \A c \in Invocations : c.inst = last.inst

\* the last step ran the redirect target's script in a same-origin iframe of
\* an id_token-mode instance, on a response with a decodable id_token
IdTokenResponse ==
    /\ last.op = "frameLoad"
    /\ last.sameOrigin
    /\ inst[last.inst].responseType = "id_token"
    /\ last.params.hasToken
    /\ getIdTokenClaims(last.params.id_token).ok

\* the nonce and the subject the ledger holds for the state of the response
LedgerNonce == sessionStorage[NonceKey(last.params.state)]
LedgerSubject == sessionStorage[SubjectKey(last.params.state)]

\* C4: a response whose id_token carries a nonce other than the one in the
\* ledger is relayed as the failure nonce_mismatch
C4_NonceMismatch ==
    ( /\ IdTokenResponse
      /\ LedgerNonce # NumItem(last.params.id_token.claims.nonce) )
    => /\ Len(last.relayed) = 1
       /\ last.relayed[1].message = "sessionCheckFailed"
       /\ last.relayed[1].reason = "nonce_mismatch"

\* C5: initialSessionSuccessHandler of an instance is invoked at most once
C5_InitialAtMostOnce ==
    \A i \in Inst : seen[i].initial <= 1

\* C6: the first success an instance classifies invokes its
\* initialSessionSuccessHandler
C6_InitialAtFirstSuccess ==
    \A i \in last.succeeded :
        seen[i].successes = 1 =>
            \E c \in Invocations :
                c.inst = i /\ c.handler = "initialSessionSuccessHandler"

\* C7: a response with the ledger's nonce and a sub other than the recorded
\* subject is relayed as the failure subject_mismatch
C7_SubjectMismatch ==
    ( /\ IdTokenResponse
      /\ LedgerNonce = NumItem(last.params.id_token.claims.nonce)
      /\ LedgerSubject.t = "str"
      /\ LedgerSubject # StrItem(last.params.id_token.claims.sub) )
    => /\ Len(last.relayed) = 1
       /\ last.relayed[1].message = "sessionCheckFailed"
       /\ last.relayed[1].reason = "subject_mismatch"

\* C8: a response with the ledger's nonce and the recorded subject (or none
\* recorded) is relayed as a success that carries the claims of the token
C8_SuccessWithClaims ==
    ( /\ IdTokenResponse
      /\ LedgerNonce = NumItem(last.params.id_token.claims.nonce)
      /\ LedgerSubject \in {NullItem, StrItem(last.params.id_token.claims.sub)} )
    => /\ Len(last.relayed) = 1
       /\ last.relayed[1].message = "sessionCheckSucceeded"
       /\ last.relayed[1].hasClaims
       /\ last.relayed[1].claims = last.params.id_token.claims

\* C9: a triggerSessionCheck() call on a destroyed instance issues no request
\* and does not throw
C9_NoDispatchAfterDestroy ==
    (last.op = "trigger" /\ last.was = "destroyed")
    => (last.dispatched = "none" /\ ~last.threw)

\* C10 as claimed: destroy() on a destroyed instance does not throw and
\* changes neither the instance, nor the document, nor the listeners, nor the
\* ledger
C10_SecondDestroyChangesNothing ==
    [][ (last'.op = "destroy" /\ last'.was = "destroyed")
        => ( /\ ~last'.threw
             /\ UNCHANGED <<inst, phase, body, listeners, nav, sessionStorage>> ) ]_vars

\* another instance of the iframe mode has been constructed whose authId
\* gives the ledger keys of instance i
SharesLedgerKeys(i) ==
    \E j \in Inst \ {i} :
        /\ phase[j] # "absent"
        /\ inst[j].ssoToken = ""
        /\ NonceKey(inst[j].authId) = NonceKey(inst[i].authId)

\* C10 as amended: destroy() on a destroyed instance does not throw, changes
\* neither the instance, nor the document, nor the listeners, nor the
\* iframes, nor any sessionStorage item other than the two under its own
\* authId, and changes no item at all unless another instance has the same
\* ledger keys
C10_SecondDestroy ==
    [][ \A i \in Inst :
          (last'.op = "destroy" /\ last'.inst = i /\ last'.was = "destroyed")
          => ( /\ ~last'.threw
               /\ UNCHANGED <<inst, phase, body, listeners, nav, xhrs, msgs>>
               /\ \A key \in StorageKeys \ {SubjectKey(inst[i].authId),
                                            NonceKey(inst[i].authId)} :
                     sessionStorage'[key] = sessionStorage[key]
               /\ (~SharesLedgerKeys(i) => sessionStorage' = sessionStorage) ) ]_vars

\* a second destroy() has run while the other instance holds a nonce in the
\* ledger
C10_Witness ==
    /\ last.op = "destroy"
    /\ last.was = "destroyed"
    /\ \E j \in Inst \ {last.inst} :
          /\ phase[j] = "live"
          /\ sessionStorage[NonceKey(inst[j].authId)] # NullItem

\* the last step constructed, or failed to construct, an instance from a
\* configuration that asks for this response type and carries no idToken
ConstructedWithoutHint(responseTypes) ==
    /\ last.op = "construct"
    /\ last.config.responseType \in responseTypes
    /\ last.config.idToken = ""

\* C11 as claimed: construction with responseType "none" and no idToken
\* throws; construction with responseType "id_token", explicit or by default,
\* and no idToken succeeds
C11_ThrowsWithoutHint ==
    /\ ConstructedWithoutHint({"none"}) => last.threw
    /\ ConstructedWithoutHint({"id_token", ""}) =>
          (~last.threw /\ phase[last.inst] = "live")

\* C11 as amended: without an ssoToken, construction with responseType "none"
\* and no idToken throws and leaves no instance, no iframe and no listener;
\* with an ssoToken it succeeds, whatever the responseType; construction with
\* responseType "id_token", explicit or by default, and no idToken succeeds
C11_ThrowsWithoutHintOrToken ==
    /\ (ConstructedWithoutHint({"none"}) /\ last.config.ssoToken = "") =>
          /\ last.threw
          /\ phase[last.inst] = "absent"
          /\ last.inst \notin body \cup listeners
    /\ (ConstructedWithoutHint({"none"}) /\ last.config.ssoToken # "") =>
          (~last.threw /\ phase[last.inst] = "live")
    /\ ConstructedWithoutHint({"id_token", ""}) =>
          (~last.threw /\ phase[last.inst] = "live")

\* a construction with responseType "none", no idToken and no ssoToken threw
C11_Witness ==
    /\ ConstructedWithoutHint({"none"})
    /\ last.config.ssoToken = ""
    /\ last.threw

\* C12: an instance constructed from a configuration with an ssoToken keeps
\* it for good, and so does one constructed without; every accepted
\* triggerSessionCheck() call of the former sends a validation request and
\* never navigates the iframe; every request issued by the latter is a
\* navigation of its iframe
C12_ModeIsFixed ==
    [][ /\ (last'.op = "construct" /\ ~last'.threw) =>
              ((inst'[last'.inst].ssoToken # "") <=> (last'.config.ssoToken # ""))
        /\ \A i \in Inst :
              phase[i] # "absent" =>
                  ((inst'[i].ssoToken # "") <=> (inst[i].ssoToken # ""))
        /\ (last'.op = "trigger" /\ last'.k > 0) =>
              IF inst[last'.inst].ssoToken # ""
              THEN /\ last'.dispatched = "xhr"
                   /\ nav' = nav
                   /\ xhrs' # xhrs
              ELSE /\ last'.dispatched \in {"nav", "none"}
                   /\ xhrs' = xhrs
                   /\ (nav' # nav <=> last'.dispatched = "nav") ]_vars

\* the second request of an instance that was constructed with an ssoToken
\* has been sent
C12_Witness ==
    /\ last.op = "trigger"
    /\ last.dispatched = "xhr"
    /\ last.k = 2
    /\ inst[last.inst].ssoToken # ""

\* the reasons with which the last step invoked invalidSessionHandler, in
\* order
InvalidReasons ==
    [ n \in 1 .. Len(last.invoked) |-> last.invoked[n].reason ]

\* C13: a validation response is classified by the table: a body that does
\* not parse invokes invalidSessionHandler with the parse error; a parsed body
\* whose valid is not true invokes it with invalid_session; valid true with a
\* configured subject other than uid invokes it with subject_mismatch;
\* anything else is a success and does not invoke it
C13_ValidationTable ==
    last.op = "xhrLoad" =>
        LET o == inst[last.inst]
            resp == last.resp
            invalid == { c \in Invocations : c.handler = "invalidSessionHandler" }
        IN  /\ ~last.threw
            /\ IF resp.kind = "unparseable"
               THEN InvalidReasons = <<ParseErrorMessage(resp.text)>>
               ELSE IF ~resp.valid
               THEN InvalidReasons = <<"invalid_session">>
               ELSE IF o.subject # "" /\ o.subject # resp.uid
               THEN InvalidReasons = <<"subject_mismatch">>
               ELSE invalid = {}
            /\ (invalid # {}) <=> (last.succeeded = {})

\* C14: for an instance with responseType "none", a response without any
\* parameter, loaded in an iframe of the page's origin, is relayed as one
\* sessionCheckSucceeded message without claims, and the delivery of a
\* success without claims invokes neither invalidSessionHandler nor
\* sessionClaimsHandler
C14_NoParamsIsSuccess ==
    /\ ( /\ last.op = "frameLoad"
         /\ last.sameOrigin
         /\ inst[last.inst].responseType = "none"
         /\ last.params = NoParams )
       => /\ ~last.threw
          /\ Len(last.relayed) = 1
          /\ last.relayed[1].message = "sessionCheckSucceeded"
          /\ ~last.relayed[1].hasClaims
    /\ ( /\ last.op = "message"
         /\ last.relayed[1].message = "sessionCheckSucceeded"
         /\ ~last.relayed[1].hasClaims )
       => \A c \in Invocations :
              c.handler \notin {"invalidSessionHandler", "sessionClaimsHandler"}

\* the success relayed for a response without parameters to the first
\* request of an instance with responseType "none" has been delivered to it
C14_Witness ==
    /\ last.op = "message"
    /\ last.inst \in Inst
    /\ inst[last.inst].responseType = "none"
    /\ last.relayed[1].message = "sessionCheckSucceeded"
    /\ ~last.relayed[1].echoed
    /\ last.relayed[1].authId = ""
    /\ \E c \in Invocations :
          c.inst = last.inst /\ c.handler = "initialSessionSuccessHandler"

\* C15: request_check_count of an instance is the number of requests
\* (navigations and validation requests) the instance has issued, so that a
\* triggerSessionCheck() call that issues no request leaves it unchanged
C15_CountIsRequestsSent ==
    \A i \in Inst : inst[i].request_check_count = hist[i].sent

\* C16: every invocation of invalidSessionHandler and of sessionClaimsHandler
\* passes the request_check_count the instance has at that moment; when the
\* invocation answers the instance's own k-th request the value is at least
\* k, and it is k when the k-th request is the latest accepted call
C16_CountArgument ==
    \A c \in Invocations :
        c.handler \in {"invalidSessionHandler", "sessionClaimsHandler"} =>
            /\ c.count = inst[c.inst].request_check_count
            /\ c.inst = last.inst =>
                  /\ c.count >= last.k
                  /\ (hist[c.inst].before + 1 = last.k) => c.count = last.k

\* the failure that answers the first request of an instance is delivered
\* after its second request was issued, and the handler is passed 2
C16_Witness ==
    /\ last.op \in {"message", "xhrLoad"}
    /\ last.k = 1
    /\ \E c \in Invocations :
          /\ c.inst = last.inst
          /\ c.handler = "invalidSessionHandler"
          /\ c.count = 2

\* C17: a message that comes from another origin than the page's, or that
\* declares an authId other than the instance's, invokes no handler of the
\* instance and changes nothing of the instance
C17_ForeignIgnored ==
    [][ last'.op \in {"message", "foreign"} =>
          LET e == last'.relayed[1]
          IN  \A i \in Inst :
                ( \/ e.origin # PageOrigin
                  \/ (~ListenerThrows(e) /\ e.authId # ""
                                         /\ e.authId # inst[i].authId) )
                => /\ \A n \in 1 .. Len(last'.invoked) : last'.invoked[n].inst # i
                   /\ i \notin last'.succeeded
                   /\ inst'[i] = inst[i]
                   /\ phase'[i] = phase[i]
                   /\ nav'[i] = nav[i]
                   /\ seen'[i] = seen[i]
                   /\ (i \in listeners' <=> i \in listeners)
                   /\ (i \in body' <=> i \in body) ]_vars

\* a failure posted from another origin has been delivered while the
\* listener of an instance that has issued a request is registered
C17_Witness ==
    /\ last.op = "foreign"
    /\ last.relayed[1].origin = OtherOrigin
    /\ last.relayed[1].message = "sessionCheckFailed"
    /\ 1 \in listeners
    /\ inst[1].request_check_count = 1

\* C18: a request is issued only by a triggerSessionCheck() call, one call
\* issues at most one request, of its own instance, and request_check_count
\* changes in no other step: neither the passing of time, nor a response,
\* nor a message makes the instance issue a request
C18_OnlyTriggersDispatch ==
    [][ LET sent == xhrs' \ xhrs
            navigated == {i \in Inst : nav'[i].pending /\ nav'[i] # nav[i]}
        IN  /\ (sent # {} \/ navigated # {}) =>
                  /\ last'.op = "trigger"
                  /\ Cardinality(sent) + Cardinality(navigated) = 1
                  /\ navigated \cup {x.inst : x \in sent} = {last'.inst}
            /\ \A i \in Inst :
                  inst'[i].request_check_count # inst[i].request_check_count =>
                      (last'.op = "trigger" /\ last'.inst = i) ]_vars

\* the cooldown of an instance has run out after its first request, whose
\* answer has come, and no further request has been issued
C18_Witness ==
    /\ last.op = "tick"
    /\ phase[1] = "live"
    /\ hist[1].called
    /\ now - hist[1].at > inst[1].cooldownPeriod * MsPerSecond
    /\ inst[1].request_check_count = 1
    /\ ~nav[1].pending
    /\ xhrs = {}
    /\ msgs = <<>>

\* C19: handlers are invoked only in the step that delivers a message to the
\* window or that loads a validation response, and a relayed message or a
\* validation response answers a request that was issued; construction,
\* triggerSessionCheck(), destroy() and the clock invoke none
C19_HandlersOnlyOnResults ==
    /\ last.invoked # <<>> => last.op \in {"message", "foreign", "xhrLoad"}
    /\ last.op \in {"message", "xhrLoad"} =>
          (last.inst \in Inst /\ last.k >= 1 /\ hist[last.inst].sent >= last.k)

\* the request of an instance has stayed unanswered for two seconds and no
\* handler has been invoked
C19_Witness ==
    /\ last.op = "tick"
    /\ nav[1].pending
    /\ now - hist[1].at >= 2 * MsPerSecond
    /\ seen[1] = NoneSeen
    /\ last.invoked = <<>>

\* C20: a triggerSessionCheck() call on a live instance is accepted, and
\* issues a request, exactly when the instance has no accepted call before it
\* or the latest one is at least cooldownPeriod old
C20_DispatchIffCooldownOver ==
    (last.op = "trigger" /\ last.was = "live") =>
        ( (Accepted /\ last.dispatched # "none")
          <=> ( \/ ~last.prev.called
                \/ now - last.prev.at >=
                      inst[last.inst].cooldownPeriod * MsPerSecond ) )

\* C21: a triggerSessionCheck() call made less than cooldownPeriod after the
\* latest accepted call of the instance changes neither the instance (its
\* timestamp and request_check_count), nor the ledger, nor the iframes, nor
\* the requests under way, invokes no handler and does not throw
C21_DroppedWithoutTrace ==
    [][ \A i \in Inst :
          ( /\ last'.op = "trigger"
            /\ last'.inst = i
            /\ hist[i].called
            /\ now - hist[i].at < inst[i].cooldownPeriod * MsPerSecond )
          => ( /\ UNCHANGED <<inst, sessionStorage, nav, xhrs, msgs, hist>>
               /\ last'.dispatched = "none"
               /\ last'.invoked = <<>>
               /\ ~last'.threw ) ]_vars

\* the requests of instance i that have been issued and not answered: the
\* validation requests not yet loaded and the navigation under way
Outstanding(i) ==
    Cardinality({x \in xhrs : x.inst = i}) + (IF nav[i].pending THEN 1 ELSE 0)

\* C22: an instance never has two requests outstanding
C22_OneOutstanding ==
    \A i \in Inst : Outstanding(i) <= 1

\* C23: once an instance of the iframe mode has issued request k+1, the
\* response to its request k invokes none of its handlers: a relayed message
\* that invokes a handler of the instance that issued the request answers
\* the latest request of that instance
C23_StaleNeverResolves ==
    last.op = "message" =>
        \A c \in Invocations :
            c.inst = last.inst => last.k = inst[c.inst].request_check_count

\* C29: the script run in an iframe whose origin differs from the page's
\* posts no message, whatever the response carries and whether the script
\* returns or ends at the read of the parent's origin, so that no handler is
\* invoked and nothing of the page changes
C29_CrossOriginSilent ==
    [][ (last'.op = "frameLoad" /\ ~last'.sameOrigin) =>
          ( /\ last'.relayed = <<>>
            /\ last'.invoked = <<>>
            /\ UNCHANGED <<msgs, inst, sessionStorage, seen>> ) ]_vars

\* a response that carries an error has been loaded in an iframe of another
\* origin, whose script ended at the read of the parent's origin, and no
\* message waits for delivery
C29_Witness ==
    /\ last.op = "frameLoad"
    /\ ~last.sameOrigin
    /\ last.threw
    /\ last.params.error # ""
    /\ msgs = <<>>

\* the last step navigated the iframe of an instance with this responseType
Navigated(responseType) ==
    /\ last.op = "trigger"
    /\ last.dispatched = "nav"
    /\ inst[last.inst].responseType = responseType

\* the script relayed exactly one message, with this name and this reason
RelayedIs(message, reason) ==
    /\ Len(last.relayed) = 1
    /\ last.relayed[1].message = message
    /\ last.relayed[1].reason = reason

\* C24: when an instance with responseType "id_token" navigates its iframe,
\* the ledger entry of its authId is the nonce of the authorization URL; a
\* success is relayed for a response to such an instance only if the response
\* carries a token whose nonce is the ledger entry under the state of the
\* response; an instance with responseType "none" sends and stores no nonce
C24_NonceLedger ==
    /\ Navigated("id_token") =>
          /\ nav[last.inst].url.hasNonce
          /\ sessionStorage[NonceKey(inst[last.inst].authId)] =
                 NumItem(nav[last.inst].url.nonce)
    /\ Navigated("none") =>
          /\ ~nav[last.inst].url.hasNonce
          /\ sessionStorage[NonceKey(inst[last.inst].authId)] = NullItem
    /\ ( /\ last.op = "frameLoad"
         /\ inst[last.inst].responseType = "id_token"
         /\ Len(last.relayed) = 1
         /\ last.relayed[1].message = "sessionCheckSucceeded" )
       => /\ last.params.hasToken
          /\ LedgerNonce = NumItem(last.params.id_token.claims.nonce)

\* C25: a response with a decodable id_token under whose state the ledger
\* holds no nonce is relayed as a failure
C25_NoLedgerEntryFails ==
    (IdTokenResponse /\ LedgerNonce = NullItem) =>
        /\ Len(last.relayed) = 1
        /\ last.relayed[1].message = "sessionCheckFailed"

\* C26: the script that verifies a response against the ledger's nonce
\* invalidates that entry: after it has run, the ledger no longer holds the
\* nonce under the state of the response
C26_NonceSingleUse ==
    [][ ( /\ last'.op = "frameLoad"
          /\ last'.sameOrigin
          /\ last'.params.hasToken
          /\ getIdTokenClaims(last'.params.id_token).ok
          /\ sessionStorage[NonceKey(last'.params.state)] =
                 NumItem(last'.params.id_token.claims.nonce) )
        => sessionStorage'[NonceKey(last'.params.state)] #
               NumItem(last'.params.id_token.claims.nonce) ]_vars

\* C27: every message the script relays carries as authId the state of the
\* response
C27_RelayCarriesState ==
    (last.op = "frameLoad" /\ Len(last.relayed) = 1) =>
        last.relayed[1].authId = last.params.state

\* C28: the script classifies a response by the first rule that applies: a
\* decodable id_token, by the ledger's nonce, then by the recorded subject,
\* then as a success with the claims; else an error, as a failure whose
\* reason is the error; else as a success without claims; and a failure
\* delivered to the instance that issued the request reaches its
\* invalidSessionHandler with the reason of the message
C28_ClassificationOrder ==
    /\ (last.op = "frameLoad" /\ last.sameOrigin) =>
          IF last.params.hasToken
          THEN getIdTokenClaims(last.params.id_token).ok =>
                 IF LedgerNonce # NumItem(last.params.id_token.claims.nonce)
                 THEN RelayedIs("sessionCheckFailed", "nonce_mismatch")
                 ELSE IF /\ LedgerSubject.t = "str"
                         /\ LedgerSubject # StrItem(last.params.id_token.claims.sub)
                 THEN RelayedIs("sessionCheckFailed", "subject_mismatch")
                 ELSE /\ RelayedIs("sessionCheckSucceeded", "")
                      /\ last.relayed[1].hasClaims
                      /\ last.relayed[1].claims = last.params.id_token.claims
          ELSE IF last.params.error # ""
          THEN RelayedIs("sessionCheckFailed", last.params.error)
          ELSE /\ RelayedIs("sessionCheckSucceeded", "")
               /\ ~last.relayed[1].hasClaims
    /\ ( /\ last.op = "message"
         /\ last.relayed[1].message = "sessionCheckFailed"
         /\ last.inst \in listeners )
       => \E c \in Invocations :
              /\ c.inst = last.inst
              /\ c.handler = "invalidSessionHandler"
              /\ c.reason = last.relayed[1].reason

\* the last step invoked invalidSessionHandler of instance i with this
\* reason and the instance's request_check_count
Reported(i, reason) ==
    \E c \in Invocations :
        /\ c.inst = i
        /\ c.handler = "invalidSessionHandler"
        /\ c.reason = reason
        /\ c.count = inst[i].request_check_count

\* C30: each of the failures is reported: a nonce mismatch, a subject
\* mismatch, an error of the provider and a response loaded in another
\* origin are relayed as a failure with their reason, a relayed failure
\* invokes invalidSessionHandler of the instance that issued the request with
\* that reason and the count, and so does an unparseable validation response
C30_FailuresReported ==
    /\ (IdTokenResponse /\ LedgerNonce # NumItem(last.params.id_token.claims.nonce))
          => RelayedIs("sessionCheckFailed", "nonce_mismatch")
    /\ ( /\ IdTokenResponse
         /\ LedgerNonce = NumItem(last.params.id_token.claims.nonce)
         /\ LedgerSubject.t = "str"
         /\ LedgerSubject # StrItem(last.params.id_token.claims.sub) )
          => RelayedIs("sessionCheckFailed", "subject_mismatch")
    /\ ( /\ last.op = "frameLoad"
         /\ last.sameOrigin
         /\ ~last.params.hasToken
         /\ last.params.error # "" )
          => RelayedIs("sessionCheckFailed", last.params.error)
    /\ (last.op = "frameLoad" /\ ~last.sameOrigin)
          => (Len(last.relayed) = 1 /\ last.relayed[1].message = "sessionCheckFailed")
    /\ ( /\ last.op = "message"
         /\ last.relayed[1].message = "sessionCheckFailed"
         /\ last.inst \in listeners )
          => Reported(last.inst, last.relayed[1].reason)
    /\ (last.op = "xhrLoad" /\ last.resp.kind = "unparseable")
          => Reported(last.inst, ParseErrorMessage(last.resp.text))
\* C31: no completion path ends by an uncaught exception: the delivery of a
\* message to the listeners, the load of a validation response and the run
\* of the redirect target's script each end without throwing
C31_CompletionNeverThrows ==
    last.op \in {"message", "foreign", "xhrLoad", "frameLoad"} => ~last.threw

\* C32: destroy() of an instance of the iframe mode leaves its iframe out of
\* the document, its listener unregistered, no nonce and no subject item
\* under its authId, and its two handles null; the iframe, the navigation,
\* the listener and the ledger items of an instance with another authId are
\* as they were
C32_DestroyReleases ==
    [][ (last'.op = "destroy" /\ inst[last'.inst].ssoToken = "") =>
          ( /\ last'.inst \notin body'
            /\ last'.inst \notin listeners'
            /\ sessionStorage'[NonceKey(inst[last'.inst].authId)] = NullItem
            /\ sessionStorage'[SubjectKey(inst[last'.inst].authId)] = NullItem
            /\ ~inst'[last'.inst].iframe
            /\ ~inst'[last'.inst].eventListenerHandle
            /\ \A j \in Inst :
                  (j # last'.inst /\ inst[j].authId # inst[last'.inst].authId) =>
                    ( /\ (j \in body') = (j \in body)
                      /\ (j \in listeners') = (j \in listeners)
                      /\ nav'[j] = nav[j]
                      /\ inst'[j] = inst[j]
                      /\ sessionStorage'[NonceKey(inst[j].authId)] =
                             sessionStorage[NonceKey(inst[j].authId)]
                      /\ sessionStorage'[SubjectKey(inst[j].authId)] =
                             sessionStorage[SubjectKey(inst[j].authId)] ) ) ]_vars

\* an instance of the iframe mode that had recorded a subject and sent a
\* request has been destroyed, while an instance with another authId is live
\* with its subject and its nonce in the ledger and its navigation pending
C32_Witness ==
    /\ last.op = "destroy"
    /\ last.was = "live"
    /\ inst[last.inst].ssoToken = ""
    /\ inst[last.inst].subject # ""
    /\ inst[last.inst].request_check_count = 1
    /\ \E j \in Inst :
          /\ j # last.inst
          /\ phase[j] = "live"
          /\ inst[j].ssoToken = ""
          /\ inst[j].authId # inst[last.inst].authId
          /\ j \in body /\ j \in listeners
          /\ nav[j].pending
          /\ sessionStorage[SubjectKey(inst[j].authId)].t = "str"
          /\ sessionStorage[NonceKey(inst[j].authId)].t = "num"

\* C33: when an instance with responseType "id_token" navigates its iframe,
\* the ledger holds under its authId the nonce of the authorization URL and
\* the subject the instance was configured with, and no subject when it was
\* configured with none
C33_LedgerHoldsOwnSubject ==
    Navigated("id_token") =>
        /\ sessionStorage[NonceKey(inst[last.inst].authId)] =
               NumItem(nav[last.inst].url.nonce)
        /\ sessionStorage[SubjectKey(inst[last.inst].authId)] =
               IF inst[last.inst].subject # ""
               THEN StrItem(inst[last.inst].subject)
               ELSE NullItem

\* two live instances of the iframe mode under one authId, both listening
SharedLivePair ==
    /\ \A i \in Inst : phase[i] = "live" /\ inst[i].ssoToken = ""
    /\ \A i, j \in Inst : inst[i].authId = inst[j].authId
    /\ listeners = Inst

\* C34: two live instances that share an authId interfere: once the dispatch
\* of one has overwritten the ledger nonce of the other, the genuine response
\* to the other's request (the state and the nonce of its authorization URL
\* in a decodable id_token) is relayed as a nonce_mismatch failure; and a
\* failure relayed for the request of one invokes invalidSessionHandler of
\* both
C34_SharedAuthIdInterferes ==
    [][ /\ ( /\ SharedLivePair
             /\ last'.op = "frameLoad"
             /\ last'.sameOrigin
             /\ nav[last'.inst].url.hasNonce
             /\ last'.params.hasToken
             /\ getIdTokenClaims(last'.params.id_token).ok
             /\ last'.params.state = nav[last'.inst].url.state
             /\ last'.params.id_token.claims.nonce = nav[last'.inst].url.nonce
             /\ sessionStorage[NonceKey(inst[last'.inst].authId)] #
                    NumItem(nav[last'.inst].url.nonce) )
           => ( /\ Len(last'.relayed) = 1
                /\ last'.relayed[1].message = "sessionCheckFailed"
                /\ last'.relayed[1].reason = "nonce_mismatch" )
        /\ ( /\ SharedLivePair
             /\ last'.op = "message"
             /\ last'.relayed[1].message = "sessionCheckFailed" )
           => \A i \in Inst :
                  \E n \in 1 .. Len(last'.invoked) :
                      /\ last'.invoked[n].inst = i
                      /\ last'.invoked[n].handler = "invalidSessionHandler" ]_vars

\* C35: the redirect target's script, run in an iframe of the page's origin,
\* posts exactly one message to the parent, whatever the response carries
\* and whatever the ledger holds
C35_OneMessagePerResponse ==
    (last.op = "frameLoad" /\ last.sameOrigin) => Len(last.relayed) = 1

\* the invocations the last step made of handlers of instance i
InvocationsOf(i) ==
    {n \in 1 .. Len(last.invoked) : last.invoked[n].inst = i}

\* instance i took the message of the last step for a result of its own
HandledMessage(i) ==
    /\ last.op \in {"message", "foreign"}
    /\ i \in listeners
    /\ last.relayed[1].origin = PageOrigin
    /\ last.relayed[1].authId \in {"", inst[i].authId}

\* C36: a result invokes handlers of one kind: a failure message invokes
\* once the invalidSessionHandler of an instance that takes it and nothing
\* else of the instance, a success message never its invalidSessionHandler;
\* a validation response that does not report a valid session of the
\* expected subject (an unparseable one and the body null included) invokes
\* invalidSessionHandler once and nothing else, one that reports it never
\* invalidSessionHandler
C36_OneKindOfHandler ==
    /\ \A i \in Inst :
          /\ (HandledMessage(i) /\ last.relayed[1].message = "sessionCheckFailed")
                => /\ Cardinality(InvocationsOf(i)) = 1
                   /\ \A n \in InvocationsOf(i) :
                          last.invoked[n].handler = "invalidSessionHandler"
          /\ (HandledMessage(i) /\ last.relayed[1].message = "sessionCheckSucceeded")
                => \A n \in InvocationsOf(i) :
                       last.invoked[n].handler # "invalidSessionHandler"
    /\ (last.op = "xhrLoad" /\ last.succeeded = {})
          => /\ Len(last.invoked) = 1
             /\ last.invoked[1].inst = last.inst
             /\ last.invoked[1].handler = "invalidSessionHandler"
    /\ (last.op = "xhrLoad" /\ last.succeeded # {})
          => \A n \in 1 .. Len(last.invoked) :
                 last.invoked[n].handler # "invalidSessionHandler"

\* the instances constructed so far have pairwise distinct authIds
DistinctAuthIds ==
    \A i, j \in Inst :
        (i # j /\ phase[i] # "absent" /\ phase[j] # "absent")
            => inst[i].authId # inst[j].authId

\* C37: on a page whose instances have distinct authIds, an instance whose
\* handler is invoked has sent at least one request, and the
\* request_check_count passed to invalidSessionHandler and to
\* sessionClaimsHandler is at least 1
C37_HandlersAfterDispatch ==
    DistinctAuthIds =>
        \A c \in Invocations :
            /\ hist[c.inst].sent >= 1
            /\ c.handler \in {"invalidSessionHandler", "sessionClaimsHandler"}
                  => c.count >= 1

====
